---- MODULE Spec2Model ----
(***************************************************************************)
(* Model of src/rust/src/main.rs: the wallet / funding / transfer /        *)
(* reconciliation workflow of `main`, driven against a node reached over   *)
(* RPC.  The program is sequential; `pc` is its position.  Every RPC reply *)
(* is chosen by the node: either an arbitrary gateway (any reply the       *)
(* client library can decode, including errors) or a regtest node that     *)
(* follows the ledger rules the source comments rely on.                   *)
(***************************************************************************)
EXTENDS Integers, Sequences, FiniteSets, TLC

(***************************************************************************)
(* Amounts.  bitcoin::Amount is a u64 count of satoshis.  The values the   *)
(* claims name exceed 2^31, so an amount is kept as three decimal limbs    *)
(* <<hi, mid, lo>> = hi * 10^16 + mid * 10^8 + lo, each limb below 10^8.   *)
(***************************************************************************)
SatPerBtc == 100000000

Zero == <<0, 0, 0>>
One == <<0, 0, 1>>
\* u64::MAX = 18446744073709551615
U64Max == <<1844, 67440737, 9551615>>
\* 2^53 = 9007199254740992: below it an f64 holds every satoshi count exactly
TwoPow53 == <<0, 90071992, 54740992>>

Btc(n) == <<0, n, 0>>

Less(a, b) ==
    \/ a[1] < b[1]
    \/ a[1] = b[1] /\ a[2] < b[2]
    \/ a[1] = b[1] /\ a[2] = b[2] /\ a[3] < b[3]

\* a + b, limb by limb with carry (no reduction of the top limb)
AddLimbs(a, b) ==
    LET lo == a[3] + b[3]
        c1 == lo \div SatPerBtc
        mid == a[2] + b[2] + c1
        c2 == mid \div SatPerBtc
    IN  <<a[1] + b[1] + c2, mid % SatPerBtc, lo % SatPerBtc>>

\* a - b for a >= b, limb by limb with borrow
SubLimbs(a, b) ==
    LET lo == a[3] - b[3]
        b1 == IF lo < 0 THEN 1 ELSE 0
        mid == a[2] - b[2] - b1
        b2 == IF mid < 0 THEN 1 ELSE 0
    IN  <<a[1] - b[1] - b2, mid + b2 * SatPerBtc, lo + b1 * SatPerBtc>>

\* u64 `-`: the difference modulo 2^64 and whether it overflowed
U64Sub(a, b) ==
    IF Less(a, b)
    THEN [val |-> AddLimbs(SubLimbs(U64Max, SubLimbs(b, a)), One), overflow |-> TRUE]
    ELSE [val |-> SubLimbs(a, b), overflow |-> FALSE]

IsPositive(a) == a # Zero

\* Amount::to_btc: the f64 nearest to sat / 10^8, as whole and fractional part;
\* it is exact for every amount below 2^53 sat
ToBtc(a) == [whole |-> <<a[1], a[2]>>, frac |-> a[3], exact |-> Less(a, TwoPow53)]

(***************************************************************************)
(* Program constants                                                       *)
(***************************************************************************)
BatchSize == 10
Ceiling == 110
ConfirmBlocks == 1
Maturity == 100
ReportLines == 10
\* variant: the amount mistyped by a digit
SendAmountMistyped == Btc(2)
SendAmount == Btc(20)
Wallets == {"Miner", "Trader"}

(***************************************************************************)
(* Addresses, options, transactions                                        *)
(***************************************************************************)
None == <<>>
Some(x) == <<x>>

Addr(s, n) == [str |-> s, network |-> n]
AddrM == Addr("bcrt1q-mining", "regtest")
AddrT == Addr("bcrt1q-trader", "regtest")
AddrA == Addr("bcrt1q-change-a", "regtest")
AddrB == Addr("bcrt1q-change-b", "regtest")
AddrX == Addr("bc1q-mainnet", "bitcoin")

\* Address<NetworkUnchecked>::require_network
RequireNetwork(a, n) == a.network = n

PaymentTxid == [kind |-> "payment", n |-> 0]
CoinbaseTxid(h) == [kind |-> "coinbase", n |-> h]
NoTxid == [kind |-> "none", n |-> 0]

Output(v, a) == [value |-> v, address |-> a]
Input(t, v) == [txid |-> t, vout |-> v]
NoTx == [vin |-> <<>>, vout |-> <<>>]

(***************************************************************************)
(* Bounds of the arbitrary gateway's replies                               *)
(***************************************************************************)
MaxOutputs == 3
MaxPrevOutputs == 2

SeqsUpTo(S, n) == UNION {[1..k -> S] : k \in 0..n}

OutputPool ==
    { Output(Btc(20), Some(AddrT)),
      Output(<<0, 29, 99998500>>, Some(AddrA)),
      Output(Btc(20), Some(AddrB)),
      Output(Btc(20), None),
      Output(Btc(20), Some(AddrX)) }

VinPool ==
    { <<>>,
      <<Input(None, None)>>,
      <<Input(Some(CoinbaseTxid(0)), Some(0))>>,
      <<Input(Some(CoinbaseTxid(0)), Some(1))>> }

PrevOutputPool ==
    { Output(Btc(50), Some(AddrM)),
      Output(<<0, 12, 50000000>>, Some(AddrM)),
      Output(Zero, None),
      Output(Btc(50), Some(AddrX)) }

BalancePool == {Zero, Btc(50)}
StartTips == {0, 300}
RegtestFees == {<<0, 0, 1500>>, <<0, 0, 2820>>}

VARIABLES
    node, startTip,                        \* the environment of this run
    tip, walletState, nodeTx, tipAtSend,   \* the regtest node's ledger
    pc, failedAt, lastCall, completed,     \* control and history
    mining_address, blocks_mined, balance, genCalls,
    trader_address, txid, confirmation_block_hash,
    raw_tx_info, block_height, input_txid, input_vout,
    miner_input_amount_sats, miner_input_address,
    trader_output_address, trader_output_amount_sats,
    miner_change_address, miner_change_amount_sats,
    transaction_fees_sats, file_open, file

envV == <<node, startTip>>
ledgerV == <<tip, walletState, nodeTx, tipAtSend>>
fundV == <<mining_address, blocks_mined, balance, genCalls>>
xferV == <<trader_address, txid, confirmation_block_hash>>
txV == <<raw_tx_info, block_height>>
inputV == <<input_txid, input_vout, miner_input_amount_sats, miner_input_address>>
classV == <<trader_output_address, trader_output_amount_sats,
            miner_change_address, miner_change_amount_sats>>
outV == <<transaction_fees_sats, file_open, file>>
vars == <<envV, ledgerV, pc, failedAt, lastCall, completed, fundV, xferV, txV,
          inputV, classV, outV>>

Init ==
    /\ node \in {"any", "regtest"}
    /\ startTip \in (IF node = "regtest" THEN StartTips ELSE {0})
    /\ tip = startTip
    /\ walletState \in (IF node = "regtest"
                        THEN [Wallets -> {"absent", "ondisk", "loaded"}]
                        ELSE {[w \in Wallets |-> "absent"]})
    /\ nodeTx = NoTx
    /\ tipAtSend = 0
    /\ pc = "get_blockchain_info"
    /\ failedAt = "none"
    /\ lastCall = [op |-> "none", ok |-> TRUE]
    /\ completed = {}
    /\ mining_address = AddrM
    /\ blocks_mined = 0
    /\ balance = Zero
    /\ genCalls = 0
    /\ trader_address = AddrT
    /\ txid = NoTxid
    /\ confirmation_block_hash = 0
    /\ raw_tx_info = NoTx
    /\ block_height = 0
    /\ input_txid = NoTxid
    /\ input_vout = 0
    /\ miner_input_amount_sats = Zero
    /\ miner_input_address = ""
    /\ trader_output_address = ""
    /\ trader_output_amount_sats = Zero
    /\ miner_change_address = ""
    /\ miner_change_amount_sats = Zero
    /\ transaction_fees_sats = Zero
    /\ file_open = FALSE
    /\ file = <<>>

\* `?` on an Err, and a successful step
Fail(at) == pc' = "failed" /\ failedAt' = at
Panic(at) == pc' = "panicked" /\ failedAt' = at
Goto(p) == pc' = p /\ failedAt' = failedAt
Called(o, r) == lastCall' = [op |-> o, ok |-> r.ok]

OkOrErr == {[ok |-> TRUE], [ok |-> FALSE]}
OnlyOk == {[ok |-> TRUE]}

\* rpc.get_blockchain_info()?
GetBlockchainInfo ==
    /\ pc = "get_blockchain_info"
    /\ \E r \in (IF node = "regtest" THEN OnlyOk ELSE OkOrErr) :
        /\ Called("getblockchaininfo", r)
        /\ IF r.ok THEN Goto("create_Miner") ELSE Fail("get_blockchain_info")
    /\ UNCHANGED <<envV, ledgerV, completed, fundV, xferV, txV, inputV, classV, outV>>

CreatePc(w) == IF w = "Miner" THEN "create_Miner" ELSE "create_Trader"
LoadPc(w) == IF w = "Miner" THEN "load_Miner" ELSE "load_Trader"
AfterPc(w) == IF w = "Miner" THEN "create_Trader" ELSE "miner_address"

\* the regtest node: createwallet succeeds only for a name not yet known,
\* loadwallet only for a wallet on disk that is not loaded
CreateReplies(w) ==
    IF node = "regtest" THEN {[ok |-> walletState[w] = "absent"]} ELSE OkOrErr
LoadReplies(w) ==
    IF node = "regtest" THEN {[ok |-> walletState[w] = "ondisk"]} ELSE OkOrErr
Loaded(w, r) ==
    IF node = "regtest" /\ r.ok THEN [walletState EXCEPT ![w] = "loaded"] ELSE walletState

\* match rpc.create_wallet(w, ..) { Ok(_) => .., Err(_) => match rpc.load_wallet(w) .. }
CreateWallet(w) ==
    /\ pc = CreatePc(w)
    /\ \E r \in CreateReplies(w) :
        /\ Called("createwallet", r)
        /\ walletState' = Loaded(w, r)
        /\ IF r.ok THEN Goto(AfterPc(w)) ELSE Goto(LoadPc(w))
    /\ UNCHANGED <<envV, tip, nodeTx, tipAtSend, completed, fundV, xferV, txV,
                   inputV, classV, outV>>

\* variant: the load propagates its error with `?`
LoadWalletStrict(w) ==
    /\ pc = LoadPc(w)
    /\ \E r \in LoadReplies(w) :
        /\ Called("loadwallet", r)
        /\ walletState' = Loaded(w, r)
        /\ IF r.ok THEN Goto(AfterPc(w)) ELSE Fail(LoadPc(w))
    /\ UNCHANGED <<envV, tip, nodeTx, tipAtSend, completed, fundV, xferV, txV,
                   inputV, classV, outV>>

\* match rpc.load_wallet(w) { Ok(_) => println, Err(e) => println }
LoadWallet(w) ==
    /\ pc = LoadPc(w)
    /\ \E r \in LoadReplies(w) :
        /\ Called("loadwallet", r)
        /\ walletState' = Loaded(w, r)
        /\ Goto(AfterPc(w))
    /\ UNCHANGED <<envV, tip, nodeTx, tipAtSend, completed, fundV, xferV, txV,
                   inputV, classV, outV>>

ErrVal(v) == [ok |-> FALSE, val |-> v]
OkVal(v) == [ok |-> TRUE, val |-> v]

\* getnewaddress on a wallet endpoint: the regtest node answers for a loaded wallet
AddressReplies(w, a) ==
    IF node = "regtest"
    THEN (IF walletState[w] = "loaded" THEN {OkVal(a)} ELSE {ErrVal(a)})
    ELSE {ErrVal(a), OkVal(a), OkVal(AddrX)}

\* miner_rpc.get_new_address(..)? then require_network(Regtest)..?
GetMiningAddress ==
    /\ pc = "miner_address"
    /\ \E r \in AddressReplies("Miner", AddrM) :
        /\ Called("getnewaddress", r)
        /\ IF r.ok /\ RequireNetwork(r.val, "regtest")
           THEN mining_address' = r.val /\ Goto("initial_balance")
           ELSE mining_address' = mining_address /\ Fail("miner_address")
    /\ UNCHANGED <<envV, ledgerV, completed, blocks_mined, balance, genCalls, xferV,
                   txV, inputV, classV, outV>>

\* block subsidy on regtest: 50 BTC, halved every 150 blocks
Subsidy(h) ==
    IF h < 150 THEN Btc(50) ELSE IF h < 300 THEN Btc(25) ELSE <<0, 12, 50000000>>

RECURSIVE SumLimb(_, _, _)
\* limb k of the subsidies of the blocks at the heights hs[i..], added up
SumLimb(hs, k, i) ==
    IF i > Len(hs) THEN 0 ELSE Subsidy(hs[i])[k] + SumLimb(hs, k, i + 1)

\* the subsidies of the blocks at the heights hs, added up (carries taken last)
SumSubsidy(hs) == AddLimbs(<<0, SumLimb(hs, 2, 1), SumLimb(hs, 3, 1)>>, Zero)

\* the Miner wallet's coinbase outputs with 100 blocks on top of them, oldest first
MatureCoins == [i \in 1..(IF tip - Maturity > startTip THEN tip - Maturity - startTip ELSE 0)
                    |-> startTip + i]

BalanceReplies ==
    IF node = "regtest"
    THEN {OkVal(SumSubsidy(MatureCoins))}
    ELSE {ErrVal(Zero)} \cup {OkVal(b) : b \in BalancePool}

\* let initial_balance = miner_rpc.get_balance(None, None)?
GetInitialBalance ==
    /\ pc = "initial_balance"
    /\ \E r \in BalanceReplies :
        /\ Called("getbalance", r)
        /\ IF r.ok THEN Goto("generate") ELSE Fail("initial_balance")
    /\ UNCHANGED <<envV, ledgerV, completed, fundV, xferV, txV, inputV, classV, outV>>

Mined(n, r) == IF node = "regtest" /\ r.ok THEN tip + n ELSE tip

\* rpc.generate_to_address(10, &mining_address)?; blocks_mined += 10
GenerateBatch ==
    /\ pc = "generate"
    /\ \E r \in (IF node = "regtest" THEN OnlyOk ELSE OkOrErr) :
        /\ Called("generatetoaddress", r)
        /\ genCalls' = genCalls + 1
        /\ tip' = Mined(BatchSize, r)
        /\ IF r.ok
           THEN blocks_mined' = blocks_mined + BatchSize /\ Goto("loop_balance")
           ELSE blocks_mined' = blocks_mined /\ Fail("generate")
    /\ UNCHANGED <<envV, walletState, nodeTx, tipAtSend, completed, mining_address,
                   balance, xferV, txV, inputV, classV, outV>>

\* variant: the loop without its break on a positive balance
LoopBreaksAtCeilingOnly(bal, mined) == mined >= Ceiling

\* if balance > Amount::ZERO { break; }  if blocks_mined >= 110 { break; }
LoopBreaks(bal, mined) == IsPositive(bal) \/ mined >= Ceiling

\* let balance = miner_rpc.get_balance(None, None)?; then the two breaks
LoopBalance ==
    /\ pc = "loop_balance"
    /\ \E r \in BalanceReplies :
        /\ Called("getbalance", r)
        /\ IF ~r.ok
           THEN balance' = balance /\ Fail("loop_balance")
           ELSE /\ balance' = r.val
                /\ IF LoopBreaks(r.val, blocks_mined)
                   THEN Goto("final_balance")
                   ELSE Goto("generate")
    /\ UNCHANGED <<envV, ledgerV, completed, mining_address, blocks_mined, genCalls,
                   xferV, txV, inputV, classV, outV>>

\* variant: the final balance query with its error swallowed
GetFinalBalanceLenient ==
    /\ pc = "final_balance"
    /\ \E r \in BalanceReplies :
        /\ Called("getbalance", r)
        /\ Goto("trader_address")
    /\ UNCHANGED <<envV, ledgerV, completed, fundV, xferV, txV, inputV, classV, outV>>

\* let final_miner_balance = miner_rpc.get_balance(None, None)?
GetFinalBalance ==
    /\ pc = "final_balance"
    /\ \E r \in BalanceReplies :
        /\ Called("getbalance", r)
        /\ IF r.ok THEN Goto("trader_address") ELSE Fail("final_balance")
    /\ UNCHANGED <<envV, ledgerV, completed, fundV, xferV, txV, inputV, classV, outV>>

\* trader_rpc.get_new_address(..)? then require_network(Regtest)..?
GetTraderAddress ==
    /\ pc = "trader_address"
    /\ \E r \in AddressReplies("Trader", AddrT) :
        /\ Called("getnewaddress", r)
        /\ IF r.ok /\ RequireNetwork(r.val, "regtest")
           THEN trader_address' = r.val /\ Goto("send")
           ELSE trader_address' = trader_address /\ Fail("trader_address")
    /\ UNCHANGED <<envV, ledgerV, completed, fundV, txid, confirmation_block_hash,
                   txV, inputV, classV, outV>>

(***************************************************************************)
(* Transfer                                                                *)
(***************************************************************************)
RECURSIVE SelectCoins(_, _, _)
\* the regtest wallet funds a payment from its mature coins, oldest first, taking
\* coins until they cover `need`; <<>> when they cannot
SelectCoins(i, acc, need) ==
    IF acc # <<>> /\ ~Less(SumSubsidy(acc), need) THEN acc
    ELSE IF i > Len(MatureCoins) THEN <<>>
    ELSE SelectCoins(i + 1, Append(acc, MatureCoins[i]), need)

\* the transaction the regtest wallet builds: one input per selected coinbase,
\* the payment and the change in either order
WalletTx(coins, dest, amount, fee, changeFirst) ==
    LET pay == Output(amount, Some(dest))
        chg == Output(SubLimbs(SumSubsidy(coins), AddLimbs(amount, fee)), Some(AddrA))
    IN  [vin |-> [i \in 1..Len(coins) |-> Input(Some(CoinbaseTxid(coins[i])), Some(0))],
         vout |-> IF changeFirst THEN <<chg, pay>> ELSE <<pay, chg>>]

SendReplies(dest, amount) ==
    IF node = "regtest"
    THEN { LET coins == SelectCoins(1, <<>>, AddLimbs(amount, fee))
           IN  IF coins = <<>>
               THEN [ok |-> FALSE, val |-> NoTxid, tx |-> NoTx]
               ELSE [ok |-> TRUE, val |-> PaymentTxid,
                     tx |-> WalletTx(coins, dest, amount, fee, cf)]
           : fee \in RegtestFees, cf \in BOOLEAN }
    ELSE { [ok |-> FALSE, val |-> NoTxid, tx |-> NoTx],
           [ok |-> TRUE, val |-> PaymentTxid, tx |-> NoTx] }

\* let txid = miner_rpc.send_to_address(&trader_address, send_amount, ..)?
SendToAddress ==
    /\ pc = "send"
    /\ \E r \in SendReplies(trader_address, SendAmount) :
        /\ Called("sendtoaddress", r)
        /\ nodeTx' = r.tx
        /\ tipAtSend' = tip
        /\ IF r.ok
           THEN txid' = r.val /\ Goto("mempool")
           ELSE txid' = txid /\ Fail("send")
    /\ UNCHANGED <<envV, tip, walletState, completed, fundV, trader_address,
                   confirmation_block_hash, txV, inputV, classV, outV>>

\* rpc.call::<serde_json::Value>("getmempoolentry", &[json!(txid.to_string())])?
GetMempoolEntry ==
    /\ pc = "mempool"
    /\ \E r \in (IF node = "regtest" THEN OnlyOk ELSE OkOrErr) :
        /\ Called("getmempoolentry", r)
        /\ IF r.ok THEN Goto("confirm") ELSE Fail("mempool")
    /\ UNCHANGED <<envV, ledgerV, completed, fundV, xferV, txV, inputV, classV, outV>>

\* block ids are modelled by heights: generating n blocks returns the n new ids
ConfirmReplies ==
    IF node = "regtest"
    THEN {OkVal([i \in 1..ConfirmBlocks |-> tip + i])}
    ELSE {ErrVal(<<>>), OkVal(<<>>), OkVal(<<1>>)}

\* let confirmation_blocks = rpc.generate_to_address(1, &mining_address)?;
\* let confirmation_block_hash = confirmation_blocks[0];
GenerateConfirm ==
    /\ pc = "confirm"
    /\ \E r \in ConfirmReplies :
        /\ Called("generatetoaddress", r)
        /\ tip' = Mined(ConfirmBlocks, r)
        /\ IF ~r.ok
           THEN confirmation_block_hash' = confirmation_block_hash /\ Fail("confirm")
           ELSE IF r.val = <<>>
           THEN confirmation_block_hash' = confirmation_block_hash /\ Panic("confirm")
           ELSE confirmation_block_hash' = r.val[1] /\ Goto("fetch_tx")
    /\ UNCHANGED <<envV, walletState, nodeTx, tipAtSend, completed, fundV,
                   trader_address, txid, txV, inputV, classV, outV>>

(***************************************************************************)
(* Reconciliation                                                          *)
(***************************************************************************)
\* the regtest node has the payment in the first block mined after the broadcast
RawTxReplies(id, block) ==
    IF node = "regtest"
    THEN (IF id = PaymentTxid /\ tip > tipAtSend /\ block = tipAtSend + 1
          THEN {OkVal(nodeTx)} ELSE {ErrVal(NoTx)})
    ELSE {ErrVal(NoTx)} \cup
         {OkVal([vin |-> i, vout |-> o]) : i \in VinPool, o \in SeqsUpTo(OutputPool, MaxOutputs)}

\* let raw_tx_info = rpc.get_raw_transaction_info(&txid, Some(&confirmation_block_hash))?
GetRawTransaction ==
    /\ pc = "fetch_tx"
    /\ \E r \in RawTxReplies(txid, confirmation_block_hash) :
        /\ Called("getrawtransaction", r)
        /\ IF r.ok
           THEN /\ raw_tx_info' = r.val
                /\ completed' = completed \cup {"fetch_tx"}
                /\ Goto("fetch_block")
           ELSE /\ UNCHANGED <<raw_tx_info, completed>>
                /\ Fail("fetch_tx")
    /\ UNCHANGED <<envV, ledgerV, fundV, xferV, block_height, inputV, classV, outV>>

BlockInfoReplies(block) ==
    IF node = "regtest"
    THEN (IF block <= tip THEN {OkVal(block)} ELSE {ErrVal(0)})
    ELSE {ErrVal(0), OkVal(block)}

\* let block_info = rpc.get_block_info(&confirmation_block_hash)?; block_info.height
GetBlockInfo ==
    /\ pc = "fetch_block"
    /\ \E r \in BlockInfoReplies(confirmation_block_hash) :
        /\ Called("getblock", r)
        /\ IF r.ok
           THEN /\ block_height' = r.val
                /\ completed' = completed \cup {"fetch_block"}
                /\ Goto("first_input")
           ELSE /\ UNCHANGED <<block_height, completed>>
                /\ Fail("fetch_block")
    /\ UNCHANGED <<envV, ledgerV, fundV, xferV, raw_tx_info, inputV, classV, outV>>

\* let first_input = &raw_tx_info.vin[0]; first_input.txid.as_ref().unwrap();
\* first_input.vout.unwrap(): an index out of range and an unwrap of None panic
FirstInput ==
    /\ pc = "first_input"
    /\ IF \/ raw_tx_info.vin = <<>>
          \/ raw_tx_info.vin[1].txid = None
          \/ raw_tx_info.vin[1].vout = None
       THEN /\ UNCHANGED <<input_txid, input_vout, completed>>
            /\ Panic("first_input")
       ELSE /\ input_txid' = raw_tx_info.vin[1].txid[1]
            /\ input_vout' = raw_tx_info.vin[1].vout[1]
            /\ completed' = completed \cup {"first_input"}
            /\ Goto("fetch_prev")
    /\ UNCHANGED <<envV, ledgerV, lastCall, fundV, xferV, txV, miner_input_amount_sats,
                   miner_input_address, classV, outV>>

\* the regtest node (with a transaction index) returns the coinbase transaction of
\* the block: the subsidy to the mining address, then the witness commitment
PrevTxReplies(id) ==
    IF node = "regtest"
    THEN (IF id.kind = "coinbase" /\ id.n > startTip /\ id.n <= tip
          THEN {OkVal(<<Output(Subsidy(id.n), Some(mining_address)), Output(Zero, None)>>)}
          ELSE {ErrVal(<<>>)})
    ELSE {ErrVal(<<>>)} \cup {OkVal(o) : o \in SeqsUpTo(PrevOutputPool, MaxPrevOutputs)}

\* variant: best effort, a prior transaction that cannot be used leaves the
\* funding fields at their defaults and the run goes on
FetchPrevTxBestEffort ==
    /\ pc = "fetch_prev"
    /\ \E r \in PrevTxReplies(input_txid) :
        /\ Called("getrawtransaction", r)
        /\ IF \/ ~r.ok
              \/ input_vout + 1 > Len(r.val)
              \/ r.val[input_vout + 1].address = None
           THEN /\ UNCHANGED <<miner_input_amount_sats, miner_input_address, completed>>
                /\ Goto("classify")
           ELSE /\ miner_input_amount_sats' = r.val[input_vout + 1].value
                /\ miner_input_address' = r.val[input_vout + 1].address[1].str
                /\ completed' = completed \cup {"fetch_prev"}
                /\ Goto("classify")
    /\ UNCHANGED <<envV, ledgerV, fundV, xferV, txV, input_txid, input_vout, classV, outV>>

\* let prev_tx_info = rpc.get_raw_transaction_info(input_txid, None)?;
\* let input_output = &prev_tx_info.vout[input_vout as usize];
\* input_output.value.to_sat(); ..address.as_ref().unwrap()..require_network(..)?
FetchPrevTx ==
    /\ pc = "fetch_prev"
    /\ \E r \in PrevTxReplies(input_txid) :
        /\ Called("getrawtransaction", r)
        /\ IF ~r.ok
           THEN /\ UNCHANGED <<miner_input_amount_sats, miner_input_address, completed>>
                /\ Fail("fetch_prev")
           ELSE IF input_vout + 1 > Len(r.val) \/ r.val[input_vout + 1].address = None
           THEN /\ UNCHANGED <<miner_input_amount_sats, miner_input_address, completed>>
                /\ Panic("fetch_prev")
           ELSE IF ~RequireNetwork(r.val[input_vout + 1].address[1], "regtest")
           THEN /\ UNCHANGED <<miner_input_amount_sats, miner_input_address, completed>>
                /\ Fail("fetch_prev")
           ELSE /\ miner_input_amount_sats' = r.val[input_vout + 1].value
                /\ miner_input_address' = r.val[input_vout + 1].address[1].str
                /\ completed' = completed \cup {"fetch_prev"}
                /\ Goto("classify")
    /\ UNCHANGED <<envV, ledgerV, fundV, xferV, txV, input_txid, input_vout, classV, outV>>

\* the four slots before the loop over the outputs (String::new(), 0u64)
NoSlots == [trader_addr |-> "", trader_sats |-> Zero,
            change_addr |-> "", change_sats |-> Zero, err |-> FALSE]

\* variant: classification by position, the first addressed output is the payment
ClassifyStepByPosition(acc, output, dest) ==
    IF output.address = None THEN acc
    ELSE IF ~RequireNetwork(output.address[1], "regtest") THEN [acc EXCEPT !.err = TRUE]
    ELSE IF acc.trader_addr = ""
    THEN [acc EXCEPT !.trader_addr = output.address[1].str, !.trader_sats = output.value]
    ELSE [acc EXCEPT !.change_addr = output.address[1].str, !.change_sats = output.value]

\* variant: an output without an address counted as change
ClassifyStepCountingUnaddressed(acc, output, dest) ==
    IF output.address = None THEN [acc EXCEPT !.change_sats = output.value]
    ELSE IF ~RequireNetwork(output.address[1], "regtest") THEN [acc EXCEPT !.err = TRUE]
    ELSE IF output.address[1].str = dest.str
    THEN [acc EXCEPT !.trader_addr = output.address[1].str, !.trader_sats = output.value]
    ELSE [acc EXCEPT !.change_addr = output.address[1].str, !.change_sats = output.value]

\* variant: the change amounts of several change outputs added up
ClassifyStepAccumulating(acc, output, dest) ==
    IF output.address = None THEN acc
    ELSE IF ~RequireNetwork(output.address[1], "regtest") THEN [acc EXCEPT !.err = TRUE]
    ELSE IF output.address[1].str = dest.str
    THEN [acc EXCEPT !.trader_addr = output.address[1].str, !.trader_sats = output.value]
    ELSE [acc EXCEPT !.change_addr = output.address[1].str,
                     !.change_sats = AddLimbs(acc.change_sats, output.value)]

\* one iteration of `for output in &raw_tx_info.vout`
ClassifyStep(acc, output, dest) ==
    IF output.address = None THEN acc
    ELSE IF ~RequireNetwork(output.address[1], "regtest") THEN [acc EXCEPT !.err = TRUE]
    ELSE IF output.address[1].str = dest.str
    THEN [acc EXCEPT !.trader_addr = output.address[1].str, !.trader_sats = output.value]
    ELSE [acc EXCEPT !.change_addr = output.address[1].str, !.change_sats = output.value]

RECURSIVE ClassifyFrom(_, _, _, _)
\* the loop: it ends at the first output whose address fails validation
ClassifyFrom(acc, vout, i, dest) ==
    IF i > Len(vout) \/ acc.err THEN acc
    ELSE ClassifyFrom(ClassifyStep(acc, vout[i], dest), vout, i + 1, dest)

Classify(vout, dest) == ClassifyFrom(NoSlots, vout, 1, dest)

\* the output loop of main
ClassifyOutputs ==
    /\ pc = "classify"
    /\ LET c == Classify(raw_tx_info.vout, trader_address)
       IN  IF c.err
           THEN /\ UNCHANGED <<classV, completed>>
                /\ Fail("classify")
           ELSE /\ trader_output_address' = c.trader_addr
                /\ trader_output_amount_sats' = c.trader_sats
                /\ miner_change_address' = c.change_addr
                /\ miner_change_amount_sats' = c.change_sats
                /\ completed' = completed \cup {"classify"}
                /\ Goto("fee")
    /\ UNCHANGED <<envV, ledgerV, lastCall, fundV, xferV, txV, inputV, outV>>

\* variant: the change left out of the subtraction
FeeSatsWithoutChange(funding, recipient, change) ==
    LET d1 == U64Sub(funding, recipient)
    IN  [val |-> d1.val, overflow |-> d1.overflow]

\* miner_input_amount_sats - trader_output_amount_sats - miner_change_amount_sats
FeeSats(funding, recipient, change) ==
    LET d1 == U64Sub(funding, recipient)
        d2 == U64Sub(d1.val, change)
    IN  [val |-> d2.val, overflow |-> d1.overflow \/ d2.overflow]

\* u64 subtraction: an overflow panics in a build with overflow checks (the debug
\* profile) and wraps in a build without them (the release profile)
ComputeFee ==
    /\ pc = "fee"
    /\ \E overflow_checks \in BOOLEAN :
       LET f == FeeSats(miner_input_amount_sats, trader_output_amount_sats,
                        miner_change_amount_sats)
       IN  IF f.overflow /\ overflow_checks
           THEN /\ UNCHANGED <<transaction_fees_sats, completed>>
                /\ Panic("fee")
           ELSE /\ transaction_fees_sats' = f.val
                /\ completed' = completed \cup {"fee"}
                /\ Goto("create_file")
    /\ UNCHANGED <<envV, ledgerV, lastCall, fundV, xferV, txV, inputV, classV,
                   file_open, file>>

(***************************************************************************)
(* Report                                                                  *)
(***************************************************************************)
\* let mut file = File::create("../out.txt")?
CreateFile ==
    /\ pc = "create_file"
    /\ \E io \in OkOrErr :
        IF io.ok
        THEN file_open' = TRUE /\ Goto("write")
        ELSE file_open' = file_open /\ Fail("create_file")
    /\ UNCHANGED <<envV, ledgerV, lastCall, completed, fundV, xferV, txV, inputV,
                   classV, transaction_fees_sats, file>>

\* the k-th writeln! of main
ReportLine(k) ==
    CASE k = 1 -> txid
      [] k = 2 -> miner_input_address
      [] k = 3 -> ToBtc(miner_input_amount_sats)
      [] k = 4 -> trader_output_address
      [] k = 5 -> ToBtc(trader_output_amount_sats)
      [] k = 6 -> miner_change_address
      [] k = 7 -> ToBtc(miner_change_amount_sats)
      [] k = 8 -> ToBtc(transaction_fees_sats)
      [] k = 9 -> block_height
      [] OTHER -> confirmation_block_hash

\* writeln!(file, "{}", ..)?  for the next field; Ok(()) after the last
WriteLine ==
    /\ pc = "write"
    /\ \E io \in OkOrErr :
        IF io.ok
        THEN /\ file' = Append(file, ReportLine(Len(file) + 1))
             /\ IF Len(file) + 1 = ReportLines THEN Goto("done") ELSE Goto("write")
        ELSE /\ file' = file
             /\ Fail("write")
    /\ UNCHANGED <<envV, ledgerV, lastCall, completed, fundV, xferV, txV, inputV,
                   classV, transaction_fees_sats, file_open>>

\* main up to the end of the funding loop
FundingNext ==
    \/ GetBlockchainInfo
    \/ \E w \in Wallets : CreateWallet(w)
    \/ \E w \in Wallets : LoadWallet(w)
    \/ GetMiningAddress
    \/ GetInitialBalance
    \/ GenerateBatch
    \/ LoopBalance
    \/ GetFinalBalance

Next ==
    \/ FundingNext
    \/ GetTraderAddress
    \/ SendToAddress
    \/ GetMempoolEntry
    \/ GenerateConfirm
    \/ GetRawTransaction
    \/ GetBlockInfo
    \/ FirstInput
    \/ FetchPrevTx
    \/ ClassifyOutputs
    \/ ComputeFee
    \/ CreateFile
    \/ WriteLine

Spec == Init /\ [][Next]_vars

\* main up to the end of the funding loop; it is a sequential program that keeps
\* running, so a step that can be taken is taken
FundingSpec == Init /\ [][FundingNext]_vars /\ WF_vars(FundingNext)

(***************************************************************************)
(* Properties                                                              *)
(***************************************************************************)
LoopPcs == {"generate", "loop_balance"}
ReconSteps == {"fetch_tx", "fetch_block", "first_input", "fetch_prev", "classify", "fee"}
TwoPow64 == AddLimbs(U64Max, One)

Addressed(o) == o.address # None
IsDest(o) == Addressed(o) /\ o.address[1].str = trader_address.str
IsOther(o) == Addressed(o) /\ o.address[1].str # trader_address.str
Outs == raw_tx_info.vout
OtherIdx == {i \in 1..Len(Outs) : IsOther(Outs[i])}
LastOther == CHOOSE i \in OtherIdx : \A j \in OtherIdx : j <= i

\* fee + recipient + change = funding in u64 arithmetic (equal modulo 2^64)
FeeBalances(fee, funding, recipient, change) ==
    LET s == AddLimbs(fee, AddLimbs(recipient, change))
    IN  \/ s = funding
        \/ s = AddLimbs(funding, TwoPow64)
        \/ s = AddLimbs(funding, AddLimbs(TwoPow64, TwoPow64))

\* C1: the funding loop makes at most 11 generation calls, makes none after a
\* balance query of the loop has returned a positive balance, and always ends.
C1_FundingLoopBounded ==
    /\ [](genCalls <= 11)
    /\ [][IsPositive(balance) => genCalls' = genCalls]_vars
    /\ (pc \in LoopPcs) ~> (pc \notin LoopPcs)

\* the loop ended by its ceiling: 11 calls, 110 blocks, the balance still zero
C1_Witness ==
    pc = "final_balance" /\ genCalls = 11 /\ blocks_mined = Ceiling /\ balance = Zero

\* C2: once the outputs are classified, the funding amount is at least the
\* recipient amount plus the change amount, so the fee subtraction cannot underflow.
C2_FeeNonNegative ==
    "classify" \in completed =>
        ~Less(miner_input_amount_sats,
              AddLimbs(trader_output_amount_sats, miner_change_amount_sats))

\* C3: the report file is created and written only after every reconciliation step
\* has completed; a run that fails or panics in a reconciliation step leaves it
\* untouched.
C3_NoReportUnlessReconciled ==
    /\ (file_open \/ file # <<>>) => completed = ReconSteps
    /\ (pc \in {"failed", "panicked"} /\ failedAt \in ReconSteps) =>
           (~file_open /\ file = <<>>)

\* the referenced output index is out of range (or the output has no address)
C3_Witness ==
    pc = "panicked" /\ failedAt = "fetch_prev" /\ file = <<>> /\ ~file_open

\* C4 as stated: an error of any gateway call, wallet creation and loading
\* included, ends the run as a failure.
C4_AnyFaultAborts == ~lastCall.ok => pc = "failed"

HardFault == ~lastCall.ok /\ lastCall.op \notin {"createwallet", "loadwallet"}

\* C4 amended: an error of any gateway call other than wallet creation and wallet
\* loading ends the run as a failure, and no step follows it.
C4_HardFaultAborts ==
    /\ [](HardFault => pc = "failed")
    /\ [][~HardFault]_vars

\* the block lookup of the reconciliation failed
C4_Witness == HardFault /\ pc = "failed" /\ failedAt = "fetch_block"

TwoOutputCase ==
    /\ Len(Outs) = 2
    /\ \E i \in 1..2 : IsDest(Outs[i]) /\ IsOther(Outs[3 - i])

\* C5: with exactly two addressed outputs, one to the destination and one to
\* another address, the recipient slot holds the destination's output and the
\* change slot the other, and swapping the two outputs gives the same result.
C5_ClassifiedByAddress ==
    ("classify" \in completed /\ TwoOutputCase) =>
        LET d == CHOOSE i \in 1..2 : IsDest(Outs[i])
        IN  /\ trader_output_address = trader_address.str
            /\ trader_output_amount_sats = Outs[d].value
            /\ miner_change_address = Outs[3 - d].address[1].str
            /\ miner_change_amount_sats = Outs[3 - d].value
            /\ Classify(<<Outs[2], Outs[1]>>, trader_address) = Classify(Outs, trader_address)

\* the change output comes first, the payment of 2,000,000,000 second
C5_Witness ==
    /\ "classify" \in completed
    /\ TwoOutputCase
    /\ IsDest(Outs[2])
    /\ Outs[2].value = Btc(20)
    /\ Outs[1].value = <<0, 29, 99998500>>

\* C6: the fee is funding - recipient - change in integer satoshis, the change
\* being 0 when there is no change output; 5,000,000,000 - 2,000,000,000 -
\* 2,999,998,500 gives exactly 1,500; the fee line of the report is that value.
C6_FeeInSatoshis ==
    "fee" \in completed =>
        /\ FeeBalances(transaction_fees_sats, miner_input_amount_sats,
                       trader_output_amount_sats, miner_change_amount_sats)
        /\ (OtherIdx = {} => miner_change_amount_sats = Zero)
        /\ (/\ miner_input_amount_sats = Btc(50)
            /\ trader_output_amount_sats = Btc(20)
            /\ miner_change_amount_sats = <<0, 29, 99998500>>)
               => transaction_fees_sats = <<0, 0, 1500>>
        /\ (Len(file) >= 8 => file[8] = ToBtc(transaction_fees_sats))

C6_Witness ==
    /\ pc = "done"
    /\ miner_input_amount_sats = Btc(50)
    /\ trader_output_amount_sats = Btc(20)
    /\ miner_change_amount_sats = <<0, 29, 99998500>>
    /\ transaction_fees_sats = <<0, 0, 1500>>

NoneAddressed == \A i \in 1..Len(Outs) : ~Addressed(Outs[i])

\* C7: a transaction none of whose outputs has an address is reconciled without
\* an error: the recipient and change addresses are empty, their amounts 0, and
\* the fee is the whole funding amount.
C7_NoAddressedOutputs ==
    ("fetch_tx" \in completed /\ NoneAddressed) =>
        /\ failedAt \notin {"classify", "fee"}
        /\ ("classify" \in completed =>
               /\ trader_output_address = "" /\ trader_output_amount_sats = Zero
               /\ miner_change_address = "" /\ miner_change_amount_sats = Zero)
        /\ ("fee" \in completed => transaction_fees_sats = miner_input_amount_sats)

\* a transaction with outputs, none of them addressed, reported to the end
C7_Witness ==
    /\ pc = "done"
    /\ Len(Outs) >= 1
    /\ NoneAddressed
    /\ file[4] = "" /\ file[6] = ""
    /\ file[8] = ToBtc(miner_input_amount_sats)

\* C8: for each wallet name a failed create is followed by a load, and neither a
\* failed create nor a failed load ends the run.
C8_ProvisioningNeverAborts ==
    /\ [](failedAt \notin {"create_Miner", "load_Miner", "create_Trader", "load_Trader"})
    /\ [][\A w \in Wallets :
            /\ pc = CreatePc(w) =>
                   /\ lastCall'.op = "createwallet"
                   /\ pc' = IF lastCall'.ok THEN AfterPc(w) ELSE LoadPc(w)
            /\ pc = LoadPc(w) =>
                   /\ lastCall'.op = "loadwallet"
                   /\ pc' = AfterPc(w)]_vars

\* a second run on a node that still has both wallets loaded: the create and the
\* load of "Trader" have both failed and the run goes on
C8_Witness ==
    /\ node = "regtest"
    /\ walletState = [w \in Wallets |-> "loaded"]
    /\ lastCall = [op |-> "loadwallet", ok |-> FALSE]
    /\ pc = "miner_address"

\* C9: against the regtest ledger the payment is broadcast only after the funding
\* loop has ended with a positive balance, exactly one block is generated between
\* the broadcast and the reconciliation lookups, and the report names the trader
\* address as recipient with exactly 20 display units.
C9_Scenario ==
    node = "regtest" =>
        /\ txid # NoTxid =>
               /\ pc \notin LoopPcs
               /\ IsPositive(balance)
               /\ nodeTx.vout # <<>>
        /\ pc \in {"mempool", "confirm"} => tip = tipAtSend
        /\ (txid # NoTxid /\ pc \notin {"mempool", "confirm"}) =>
               (tip = tipAtSend + 1 /\ confirmation_block_hash = tip)
        /\ Len(file) >= 5 =>
               /\ file[4] = trader_address.str
               /\ file[5] = [whole |-> <<0, 20>>, frac |-> 0, exact |-> TRUE]

\* a fresh chain: 110 blocks mined, the payment confirmed in block 111 and reported
C9_Witness ==
    /\ node = "regtest"
    /\ startTip = 0
    /\ pc = "done"
    /\ blocks_mined = Ceiling
    /\ block_height = Ceiling + ConfirmBlocks

\* C10: with several addressed outputs that do not pay the destination, the run
\* does not fail on them, the change slot holds the last of them, and the fee
\* subtracts that last amount and the recipient amount only.
C10_LastChangeWins ==
    ("fetch_tx" \in completed /\ Cardinality(OtherIdx) >= 2
       /\ \A i \in OtherIdx : RequireNetwork(Outs[i].address[1], "regtest")) =>
        /\ failedAt # "classify"
        /\ "classify" \in completed =>
               /\ miner_change_address = Outs[LastOther].address[1].str
               /\ miner_change_amount_sats = Outs[LastOther].value
        /\ "fee" \in completed =>
               FeeBalances(transaction_fees_sats, miner_input_amount_sats,
                           trader_output_amount_sats, Outs[LastOther].value)

\* payment, then two change outputs of different amounts, reported to the end
C10_Witness ==
    /\ pc = "done"
    /\ Len(Outs) = 3
    /\ IsDest(Outs[1])
    /\ OtherIdx = {2, 3}
    /\ Outs[2].value # Outs[3].value
    /\ file[6] = Outs[3].address[1].str
    /\ file[7] = ToBtc(Outs[3].value)
====
